---- MODULE Spec2Model ----
(***************************************************************************)
(* A model of the comicat.org scraper: crawler.py (text helpers, time      *)
(* parser, detail resolver, table parser, scrape entry point) and the      *)
(* /api/scrape handler of main.py.                                         *)
(*                                                                         *)
(* Text is a sequence of atoms (short TLA+ strings standing for a run of   *)
(* characters); the empty Python string is the empty sequence.  Non-ASCII  *)
(* literals of the source are written in pinyin: "jintian" (today),        *)
(* "zuotian" (yesterday), "weizhi daxiao" (unknown size).                  *)
(***************************************************************************)
EXTENDS Integers, Sequences, FiniteSets, TLC

\* ------------------------------------------------------------------ bounds
MaxRows == 3
MaxCap == 2
MaxAnchors == 2
MaxScrapes == 2

\* ------------------------------------------------------- program constants
MAX_DETAIL == 12
TOP_N == 5

BASE_URL == <<"https://comicat.org/">>
COMICAT_TODAY_URL == BASE_URL \o <<"today-1.html">>
SOURCE == <<"comicat.org">>
MAGNET_PREFIX == "magnet:?xt=urn:btih:"
UNKNOWN_SIZE == <<"weizhi daxiao">>
UNKNOWN_QUALITY == <<"unknown">>

MSG_OK == "OK"
MSG_CACHE == "captcha page, parsed local cache last_comicat_page.html"
MSG_NO_CACHE == "still captcha page, no local cache available"
MSG_NO_ITEMS == "page loaded but no entries parsed from the table"
ERR_NO_NEW == "No new anime releases today."
ERR_FAILED == "Scrape failed"

\* ------------------------------------------------------------ text helpers
IsSpace(a) == a \in {" ", "\n", "\t"}

\* str.lower() on the atoms that carry upper-case letters
LowerAtom(a) ==
  CASE a = "CAPTCHA" -> "captcha"
    [] a = "I'm Not A Robot" -> "i'm not a robot"
    [] a = ".TORRENT" -> ".torrent"
    [] a = "Download" -> "download"
    [] a = "MAGNET:?XT=URN:BTIH:" -> "magnet:?xt=urn:btih:"
    [] a = "1080P" -> "1080p"
    [] a = "2160P" -> "2160p"
    [] a = "WEBRip" -> "webrip"
    [] a = "HEVC" -> "hevc"
    [] a = "MB" -> "mb"
    [] a = "GB" -> "gb"
    [] a = "MiB" -> "mib"
    [] a = "TB" -> "tb"
    [] OTHER -> a

RECURSIVE LStrip(_)
LStrip(s) == IF s # <<>> /\ IsSpace(Head(s)) THEN LStrip(Tail(s)) ELSE s

RECURSIVE RStrip(_)
RStrip(s) ==
  IF s # <<>> /\ IsSpace(s[Len(s)]) THEN RStrip(SubSeq(s, 1, Len(s) - 1)) ELSE s

\* str.strip()
Strip(s) == RStrip(LStrip(s))

\* re.sub(r"\s+", " ", s): every run of whitespace becomes one " "
RECURSIVE CollapseSpaces(_)
CollapseSpaces(s) ==
  IF s = <<>> THEN <<>>
  ELSE IF IsSpace(Head(s))
       THEN <<" ">> \o CollapseSpaces(LStrip(s))
       ELSE <<Head(s)>> \o CollapseSpaces(Tail(s))

\* _clean_text
CleanText(s) == Strip(CollapseSpaces(s))

StartsWith(s, a) == s # <<>> /\ s[1] = a
EndsWithLower(s, a) == s # <<>> /\ LowerAtom(s[Len(s)]) = a
ContainsLower(s, a) == \E i \in 1..Len(s) : LowerAtom(s[i]) = a

\* ------------------------------------------------------------ _guess_size
NumberAtoms == {"567.6", "1.2", "624"}
UnitAtoms == {"gb", "gib", "mb", "mib", "kb"}

\* the regex (\d+(?:\.\d+)?)\s?(GB|GiB|MB|MiB|KB), IGNORECASE, at position i:
\* the length of the match there, 0 when there is none
SizeMatchLen(s, i) ==
  IF s[i] \notin NumberAtoms THEN 0
  ELSE IF i + 1 <= Len(s) /\ LowerAtom(s[i + 1]) \in UnitAtoms THEN 2
  ELSE IF i + 2 <= Len(s) /\ IsSpace(s[i + 1]) /\ LowerAtom(s[i + 2]) \in UnitAtoms
       THEN 3
  ELSE 0

SizeMatches(s) == {i \in 1..Len(s) : SizeMatchLen(s, i) > 0}

Min(S) == CHOOSE x \in S : \A y \in S : x <= y

GuessSize(text) ==
  IF SizeMatches(text) # {}
  THEN LET i == Min(SizeMatches(text))
       IN SubSeq(text, i, i + SizeMatchLen(text, i) - 1)
  ELSE IF text # <<>> THEN text ELSE UNKNOWN_SIZE

\* --------------------------------------------------------- _guess_quality
Q_PATTERNS ==
  << {"2160p", "4k", "uhd"},
     {"1080p", "bdrip", "bluray", "web-dl", "webrip", "hevc", "x265", "x264"},
     {"720p"} >>

QualityMatches(text, g) == {i \in 1..Len(text) : LowerAtom(text[i]) \in Q_PATTERNS[g]}

RECURSIVE GuessQualityFrom(_, _)
GuessQualityFrom(text, g) ==
  IF g > Len(Q_PATTERNS) THEN UNKNOWN_QUALITY
  ELSE IF QualityMatches(text, g) # {}
       THEN <<text[Min(QualityMatches(text, g))]>>
       ELSE GuessQualityFrom(text, g + 1)

GuessQuality(text) == GuessQualityFrom(text, 1)

\* ------------------------------------------------------ _looks_like_captcha
MARKERS == {"i'm not a robot", "captcha", "visitor-test-form", "visitor_test"}

LooksLikeCaptchaText(s) == \E i \in 1..Len(s) : LowerAtom(s[i]) \in MARKERS

\* ----------------------------------------------------------- _parse_cn_time
\* int() of the digit atoms used in time cells
NumVal ==
  ("00" :> 0) @@ ("01" :> 1) @@ ("8" :> 8) @@ ("08" :> 8) @@ ("10" :> 10) @@
  ("12" :> 12) @@ ("13" :> 13) @@ ("21" :> 21) @@ ("25" :> 25) @@ ("26" :> 26) @@
  ("31" :> 31) @@ ("41" :> 41) @@ ("2025" :> 2025)

\* \d{lo,hi}
IsDigits(a, lo, hi) == a \in DOMAIN NumVal /\ Len(a) >= lo /\ Len(a) <= hi

IsLeap(y) == (y % 4 = 0 /\ y % 100 # 0) \/ y % 400 = 0

DaysInMonth(y, mo) ==
  IF mo = 2 THEN (IF IsLeap(y) THEN 29 ELSE 28)
  ELSE IF mo \in {4, 6, 9, 11} THEN 30 ELSE 31

\* datetime(y, mo, d, hh, mm, tzinfo=TZ): ValueError when a field is out of range
MakeDatetime(y, mo, d, hh, mm) ==
  IF /\ y >= 1 /\ y <= 9999
     /\ mo >= 1 /\ mo <= 12
     /\ d >= 1 /\ d <= DaysInMonth(y, mo)
     /\ hh >= 0 /\ hh <= 23
     /\ mm >= 0 /\ mm <= 59
  THEN [kind |-> "value", dt |-> [y |-> y, mo |-> mo, d |-> d, hh |-> hh, mm |-> mm]]
  ELSE [kind |-> "raise", exc |-> "ValueError"]

\* (now - timedelta(days=1)).date()
DayBefore(n) ==
  IF n.d > 1 THEN [y |-> n.y, mo |-> n.mo, d |-> n.d - 1]
  ELSE IF n.mo > 1
       THEN [y |-> n.y, mo |-> n.mo - 1, d |-> DaysInMonth(n.y, n.mo - 1)]
       ELSE [y |-> n.y - 1, mo |-> 12, d |-> 31]

\* ^(jintian|zuotian)\s+(\d{1,2}):(\d{2})$
MatchRelative(t) ==
  /\ Len(t) = 5
  /\ t[1] \in {"jintian", "zuotian"}
  /\ t[2] = " "
  /\ IsDigits(t[3], 1, 2)
  /\ t[4] = ":"
  /\ IsDigits(t[5], 2, 2)

\* ^(\d{4})-(\d{1,2})-(\d{1,2})\s+(\d{1,2}):(\d{2})$
MatchAbsolute(t) ==
  /\ Len(t) = 9
  /\ IsDigits(t[1], 4, 4)
  /\ t[2] = "-"
  /\ IsDigits(t[3], 1, 2)
  /\ t[4] = "-"
  /\ IsDigits(t[5], 1, 2)
  /\ t[6] = " "
  /\ IsDigits(t[7], 1, 2)
  /\ t[8] = ":"
  /\ IsDigits(t[9], 2, 2)

\* the run matched by \s+ is read as one " ": t is the stripped text with its
\* whitespace runs collapsed
ParseCnTime(cell_text, now) ==
  LET t == CollapseSpaces(Strip(cell_text))
  IN IF MatchRelative(t)
     THEN LET base == IF t[1] = "jintian"
                      THEN [y |-> now.y, mo |-> now.mo, d |-> now.d]
                      ELSE DayBefore(now)
          IN MakeDatetime(base.y, base.mo, base.d, NumVal[t[3]], NumVal[t[5]])
     ELSE IF MatchAbsolute(t)
     THEN MakeDatetime(NumVal[t[1]], NumVal[t[3]], NumVal[t[5]],
                       NumVal[t[7]], NumVal[t[9]])
     ELSE [kind |-> "value", dt |-> now]

\* dt.isoformat() in the fixed zone Asia/Taipei
IsoFormat(dt) == <<dt.y, "-", dt.mo, "-", dt.d, "T", dt.hh, ":", dt.mm, ":00+08:00">>

\* ------------------------------------------------------------------ urljoin
SchemeAtoms == {"https://comicat.org/", "https://mirror.example/", MAGNET_PREFIX}

UrlJoin(base, href) ==
  IF href = <<>> THEN base
  ELSE IF href[1] \in SchemeAtoms THEN href
  ELSE base \o href

\* ------------------------------------------- BeautifulSoup find(all) of <a>
\* an anchor is [has_href, href, text]; find("a", href=True) skips the
\* anchors that carry no href attribute
HrefAnchors(anchors) == SelectSeq(anchors, LAMBDA a : a.has_href)

\* ----------------------------------------------- _extract_magnet_from_detail
IsMagnet(href) == StartsWith(href, MAGNET_PREFIX)
IsDownload(href) == EndsWithLower(href, ".torrent") \/ ContainsLower(href, "download")

StrippedHrefs(anchors) ==
  LET as == HrefAnchors(anchors)
  IN [i \in 1..Len(as) |-> Strip(as[i].href)]

\* one loop that takes the first link of either kind
ExtractMagnet_SinglePass(detail_html) ==
  LET hrefs == StrippedHrefs(detail_html)
      hits == {i \in 1..Len(hrefs) : IsMagnet(hrefs[i]) \/ IsDownload(hrefs[i])}
  IN IF hits # {} THEN hrefs[Min(hits)] ELSE <<>>

ExtractMagnetFromDetail(detail_html) ==
  LET hrefs == StrippedHrefs(detail_html)
      magnets == {i \in 1..Len(hrefs) : IsMagnet(hrefs[i])}
      downloads == {i \in 1..Len(hrefs) : IsDownload(hrefs[i])}
  IN IF magnets # {} THEN hrefs[Min(magnets)]
     ELSE IF downloads # {} THEN hrefs[Min(downloads)]
     ELSE <<>>

\* ------------------------------------------------------------- httpx.Client
\* client.get on a client state and the network's answer: a closed client
\* raises before anything is sent
ClientGet(client_state, net) ==
  IF client_state # "open" THEN [kind |-> "raise", exc |-> "RuntimeError"]
  ELSE IF net.kind = "error" THEN [kind |-> "raise", exc |-> "ConnectError"]
  ELSE [kind |-> "response", status |-> net.status, body |-> net.body]

\* --------------------------------------------------------- _fetch_detail_link
\* the try block: a return value, a raise, or falling out of the block
FetchDetailTry(client_state, url, net) ==
  LET r == ClientGet(client_state, net)
  IN IF r.kind = "raise" THEN r
     ELSE IF r.status = 200
     THEN LET magnet == ExtractMagnetFromDetail(r.body)
          IN [kind |-> "return", value |-> IF magnet # <<>> THEN magnet ELSE url]
     ELSE [kind |-> "fallthrough"]

\* except Exception: pass, then return url
FetchDetailLink(client_state, url, net) ==
  LET t == FetchDetailTry(client_state, url, net)
  IN IF t.kind = "return" THEN t ELSE [kind |-> "return", value |-> url]

\* ------------------------------------------------------------- HTML inputs
Anchor(href, text) == [has_href |-> TRUE, href |-> href, text |-> text]
BareAnchor(text) == [has_href |-> FALSE, href |-> <<>>, text |-> text]
Cell(text, anchors) == [text |-> text, anchors |-> anchors]

\* time cells as they stand in the page, before _clean_text
D_TODAY == <<"\n", "jintian", " ", " ", "21", ":", "41", "\n">>
D_YESTERDAY == <<"zuotian", " ", "08", ":", "12">>
D_ABSOLUTE == <<"2025", "-", "10", "-", "26", " ", "21", ":", "41">>
D_OTHER == <<"soon">>
D_BAD_HOUR == <<"jintian", " ", "25", ":", "00">>
D_BAD_MONTH == <<"2025", "-", "13", "-", "01", " ", "10", ":", "00">>

T_A == <<"[Sub]", " ", "Show", " ", "1080P", " ", "2160p">>
T_B == <<"\n", "Film", " ", " ", "WEBRip", " ", "720p", "\n">>

\* rows of tbody#data_list: a row is the sequence of its direct <td> cells
ROW_A ==
  << Cell(D_TODAY, <<>>), Cell(<<"anime">>, <<>>),
     Cell(T_A, <<Anchor(<<"show-a.html">>, T_A)>>),
     Cell(<<"567.6", "MB">>, <<>>) >>
ROW_B ==
  << Cell(D_YESTERDAY, <<>>), Cell(<<"anime">>, <<>>),
     Cell(T_B, <<BareAnchor(<<"tag">>), Anchor(<<" ", "show-b.html", " ">>, T_B)>>),
     Cell(<<"\n", "1.2", " ", "GB", " ", "total">>, <<>>),
     Cell(<<"extra">>, <<>>) >>
ROW_SHORT ==
  << Cell(D_ABSOLUTE, <<>>), Cell(<<"anime">>, <<>>),
     Cell(T_A, <<Anchor(<<"show-s.html">>, T_A)>>) >>
ROW_NO_LINK ==
  << Cell(D_ABSOLUTE, <<>>), Cell(<<"anime">>, <<>>),
     Cell(T_A, <<BareAnchor(T_A)>>), Cell(<<"624", "MB">>, <<>>) >>
ROW_BAD_HOUR ==
  << Cell(D_BAD_HOUR, <<>>), Cell(<<"anime">>, <<>>),
     Cell(T_A, <<Anchor(<<"show-h.html">>, T_A)>>),
     Cell(<<"624", "MB">>, <<>>) >>
ROW_BAD_MONTH ==
  << Cell(D_BAD_MONTH, <<>>), Cell(<<"anime">>, <<>>),
     Cell(T_A, <<BareAnchor(T_A)>>), Cell(<<"624", "MB">>, <<>>) >>
ROW_EMPTY_TITLE ==
  << Cell(D_OTHER, <<>>), Cell(<<"anime">>, <<>>),
     Cell(<<"\n", " ">>, <<Anchor(<<"https://mirror.example/", "e.html">>, <<"\n", " ">>)>>),
     Cell(<<" ">>, <<>>) >>
ROW_FREE_SIZE ==
  << Cell(D_ABSOLUTE, <<>>), Cell(<<"anime">>, <<>>),
     Cell(<<"Plain">>, <<Anchor(<<>>, <<"Plain">>)>>),
     Cell(<<"N/A">>, <<>>) >>

RowKinds ==
  {ROW_A, ROW_B, ROW_SHORT, ROW_NO_LINK, ROW_BAD_HOUR, ROW_BAD_MONTH,
   ROW_EMPTY_TITLE, ROW_FREE_SIZE}

SeqsUpTo(S, n) == UNION {[1..k -> S] : k \in 0..n}

\* a page: its text outside the table, and tbody#data_list of table#listTable
\* when the page has one
Page(text, has_table, rows) == [text |-> text, has_table |-> has_table, rows |-> rows]

\* detail pages are the sequence of their <a> elements
A_MAGNET == Anchor(<<" ", MAGNET_PREFIX, "abc", "\n">>, <<"magnet">>)
A_MAGNET2 == Anchor(<<MAGNET_PREFIX, "def">>, <<"magnet">>)
A_UPPER_MAGNET == Anchor(<<"MAGNET:?XT=URN:BTIH:", "abc">>, <<"magnet">>)
A_TORRENT == Anchor(<<"/files/x", ".TORRENT">>, <<"torrent">>)
A_TORRENT_QUERY == Anchor(<<"/files/x", ".torrent", "?a=1">>, <<"torrent">>)
A_DOWNLOAD == Anchor(<<"/", "Download", "/x">>, <<"get">>)
A_PLAIN == Anchor(<<"/about.html">>, <<"about">>)
A_BARE == BareAnchor(<<"top">>)

AnchorKinds ==
  {A_MAGNET, A_MAGNET2, A_UPPER_MAGNET, A_TORRENT, A_TORRENT_QUERY, A_DOWNLOAD,
   A_PLAIN, A_BARE}

\* what the network answers to a detail GET
NetError == [kind |-> "error", status |-> 0, body |-> <<>>]
NetHttp(status, body) == [kind |-> "http", status |-> status, body |-> body]

DetailPagesSmall == {<<A_PLAIN, A_TORRENT, A_MAGNET>>, <<A_DOWNLOAD>>, <<A_PLAIN>>}
DetailNetsSmall ==
  {NetError, NetHttp(404, <<A_MAGNET>>)} \cup {NetHttp(200, b) : b \in DetailPagesSmall}

NOWS ==
  { [y |-> 2025, mo |-> 10, d |-> 26, hh |-> 10, mm |-> 0],
    [y |-> 2025, mo |-> 3, d |-> 1, hh |-> 0, mm |-> 30] }

\* ------------------------------------------------------------------- state
VARIABLES
  pc,                  \* where the program stands
  client,              \* the httpx.Client: "none", "open", "closed"
  snapshot,            \* the file last_comicat_page.html
  html,                \* the page scrape_comicat_today parses
  debug_msg,
  has_client,          \* _parse_today_table: client_for_detail is not None
  max_detail,
  rows, idx, results, detail_fetch_count, now,
  parse_out,           \* how _parse_today_table ended
  scrape_out,          \* how scrape_comicat_today ended
  response,            \* what scrape_latest answered
  detail_log,          \* observation: the detail fetches of this parse
  obs,                 \* observation: facts about the invocations so far
  d_in, d_out          \* one _fetch_detail_link call and its result

vars ==
  <<pc, client, snapshot, html, debug_msg, has_client, max_detail, rows, idx,
    results, detail_fetch_count, now, parse_out, scrape_out, response,
    detail_log, obs, d_in, d_out>>

parse_vars == <<rows, idx, results, detail_fetch_count, now, parse_out, detail_log>>

None == [kind |-> "none"]
NoFile == [exists |-> FALSE, content |-> Page(<<>>, FALSE, <<>>)]
File(content) == [exists |-> TRUE, content |-> content]
NoPage == Page(<<>>, FALSE, <<>>)
NoNow == [y |-> 0, mo |-> 0, d |-> 0, hh |-> 0, mm |-> 0]
NoObs ==
  [scrapes |-> 0, snap_at_start |-> NoFile, fetched |-> None, blocked |-> FALSE,
   last_good |-> None, write_failed |-> FALSE, parse_calls |-> 0]
NoDetail == [client |-> "none", url |-> <<>>, net |-> NetError]

\* ------------------------------------------------------- _parse_today_table
AnimeInfo(title, url, size, quality, date, source) ==
  [title |-> title, url |-> url, size |-> size, quality |-> quality,
   date |-> date, source |-> source]

\* soup.select_one(...), rows = table.find_all("tr", recursive=False)
ParseBegin ==
  /\ pc = "parse_call"
  /\ obs' = [obs EXCEPT !.parse_calls = @ + 1]
  /\ IF ~html.has_table
     THEN /\ parse_out' = [kind |-> "return", items |-> <<>>]
          /\ pc' = "parse_done"
          /\ UNCHANGED <<rows, idx, results, detail_fetch_count, now, detail_log>>
     ELSE /\ rows' = html.rows
          /\ \E n \in NOWS : now' = n
          /\ results' = <<>>
          /\ detail_fetch_count' = 0
          /\ idx' = 1
          /\ detail_log' = <<>>
          /\ pc' = "parse_loop"
          /\ UNCHANGED parse_out
  /\ UNCHANGED <<client, snapshot, html, debug_msg, has_client, max_detail,
                 scrape_out, response, d_in, d_out>>

\* tds[2].find("a", href=True): the <a href> elements of the title cell, the
\* first of which is the match
TitleAnchor(td) == HrefAnchors(td.anchors)

\* one iteration of "for tr in rows"
ParseRow ==
  /\ pc = "parse_loop"
  /\ idx <= Len(rows)
  /\ LET tds == rows[idx]
     IN IF Len(tds) < 4
        THEN /\ idx' = idx + 1
             /\ UNCHANGED <<pc, results, detail_fetch_count, parse_out, detail_log>>
        ELSE LET dt == ParseCnTime(CleanText(tds[1].text), now)
             IN IF dt.kind = "raise"
                THEN /\ parse_out' = dt
                     /\ pc' = "parse_done"
                     /\ UNCHANGED <<idx, results, detail_fetch_count, detail_log>>
                ELSE IF TitleAnchor(tds[3]) = <<>>
                THEN /\ idx' = idx + 1
                     /\ UNCHANGED <<pc, results, detail_fetch_count, parse_out,
                                    detail_log>>
                ELSE LET title_a == TitleAnchor(tds[3])[1]
                         title == CleanText(title_a.text)
                         detail_url == UrlJoin(BASE_URL, Strip(title_a.href))
                         size_text == GuessSize(CleanText(tds[4].text))
                         quality == GuessQuality(title)
                         fetch == has_client /\ detail_fetch_count < max_detail
                     IN \E net \in DetailNetsSmall :
                          LET final_url ==
                                IF fetch
                                THEN FetchDetailLink(client, detail_url, net).value
                                ELSE detail_url
                          IN /\ results' = Append(results,
                                   AnimeInfo(title, final_url, size_text, quality,
                                             IsoFormat(dt.dt), SOURCE))
                             /\ detail_fetch_count' =
                                   IF fetch THEN detail_fetch_count + 1
                                   ELSE detail_fetch_count
                             /\ detail_log' =
                                   IF fetch
                                   THEN Append(detail_log,
                                          [row |-> idx, client |-> client,
                                           url |-> detail_url])
                                   ELSE detail_log
                             /\ idx' = idx + 1
                             /\ UNCHANGED <<pc, parse_out>>
  /\ UNCHANGED <<client, snapshot, html, debug_msg, has_client, max_detail, rows,
                 now, scrape_out, response, obs, d_in, d_out>>

\* return results
ParseEnd ==
  /\ pc = "parse_loop"
  /\ idx > Len(rows)
  /\ parse_out' = [kind |-> "return", items |-> results]
  /\ pc' = "parse_done"
  /\ UNCHANGED <<client, snapshot, html, debug_msg, has_client, max_detail, rows,
                 idx, results, detail_fetch_count, now, scrape_out, response,
                 detail_log, obs, d_in, d_out>>

\* _parse_today_table on any table, any cap and any client
InitTable ==
  /\ pc = "parse_call"
  /\ client \in {"open", "closed"}
  /\ has_client \in BOOLEAN
  /\ max_detail \in 0..MaxCap
  /\ \E b \in BOOLEAN, rs \in SeqsUpTo(RowKinds, MaxRows) :
       html = Page(<<"listing">>, b, rs)
  /\ snapshot = NoFile
  /\ debug_msg = ""
  /\ rows = <<>> /\ idx = 0 /\ results = <<>> /\ detail_fetch_count = 0
  /\ now = NoNow
  /\ parse_out = None /\ scrape_out = None /\ response = None
  /\ detail_log = <<>>
  /\ obs = NoObs
  /\ d_in = NoDetail /\ d_out = None

NextTable == ParseBegin \/ ParseRow \/ ParseEnd

SpecTable == InitTable /\ [][NextTable]_vars

\* ------------------------------------------------------------ listing pages
PAGE_REAL == Page(<<"listing">>, TRUE, <<ROW_A, ROW_SHORT, ROW_B>>)
PAGE_SIX ==
  Page(<<"listing">>, TRUE,
       <<ROW_A, ROW_B, ROW_FREE_SIZE, ROW_NO_LINK, ROW_A, ROW_EMPTY_TITLE, ROW_B>>)
PAGE_CAPTCHA == Page(<<"please", " ", "I'm Not A Robot">>, FALSE, <<>>)
PAGE_VISITOR == Page(<<"visitor-test-form">>, FALSE, <<>>)
PAGE_CAPTCHA_TABLE == Page(<<"g", "CAPTCHA">>, TRUE, <<ROW_B>>)
PAGE_NO_TABLE == Page(<<"redesigned">>, FALSE, <<>>)
PAGE_NO_ROWS == Page(<<"listing">>, TRUE, <<ROW_SHORT, ROW_NO_LINK>>)
PAGE_BAD_TIME == Page(<<"listing">>, TRUE, <<ROW_A, ROW_BAD_HOUR>>)

ListingPages ==
  {PAGE_REAL, PAGE_SIX, PAGE_CAPTCHA, PAGE_VISITOR, PAGE_CAPTCHA_TABLE,
   PAGE_NO_TABLE, PAGE_NO_ROWS, PAGE_BAD_TIME}

\* the status of the listing response is never read
ListingNets ==
  {NetError, NetHttp(503, PAGE_CAPTCHA)} \cup {NetHttp(200, p) : p \in ListingPages}

\* the text of a page: its own and that of every cell and anchor of its rows
LooksLikeCaptcha(page) ==
  \/ LooksLikeCaptchaText(page.text)
  \/ \E i \in 1..Len(page.rows) : \E j \in 1..Len(page.rows[i]) :
       \/ LooksLikeCaptchaText(page.rows[i][j].text)
       \/ \E k \in 1..Len(page.rows[i][j].anchors) :
            LooksLikeCaptchaText(page.rows[i][j].anchors[k].href)

\* ------------------------------------------------- last_comicat_page.html
\* open(path, "w") then f.write(html): it succeeds, or open fails and the file
\* is as it was, or the write fails after open has truncated the file
WriteOutcomes == {"ok", "open_fails", "write_fails"}
ReadOutcomes == {"ok", "fails"}

WriteFile(file, content, w) ==
  IF w = "ok" THEN File(content)
  ELSE IF w = "open_fails" THEN file
  ELSE File(NoPage)

\* ----------------------------------------------------- scrape_comicat_today
\* GET /api/scrape arrives: scrape_latest calls scrape_comicat_today, which
\* builds the headers and opens the client
HandlerCall ==
  /\ pc \in {"idle", "responded"}
  /\ obs.scrapes < MaxScrapes
  /\ client' = "open"
  /\ pc' = "get"
  /\ obs' = [obs EXCEPT !.scrapes = @ + 1, !.snap_at_start = snapshot,
                        !.fetched = None, !.blocked = FALSE, !.parse_calls = 0]
  /\ html' = NoPage /\ debug_msg' = ""
  /\ rows' = <<>> /\ idx' = 0 /\ results' = <<>> /\ detail_fetch_count' = 0
  /\ now' = NoNow /\ detail_log' = <<>>
  /\ parse_out' = None /\ scrape_out' = None /\ response' = None
  /\ UNCHANGED <<snapshot, has_client, max_detail, d_in, d_out>>

\* resp = client.get(COMICAT_TODAY_URL); html = resp.text
InitialGet ==
  /\ pc = "get"
  /\ \E net \in ListingNets :
       LET r == ClientGet(client, net)
       IN IF r.kind = "raise"
          THEN /\ scrape_out' = r
               /\ client' = "closed"
               /\ pc' = "scrape_done"
               /\ UNCHANGED <<html, obs>>
          ELSE /\ html' = r.body
               /\ obs' = [obs EXCEPT
                            !.fetched = [kind |-> "page", page |-> r.body],
                            !.blocked = LooksLikeCaptcha(r.body),
                            !.last_good =
                               IF LooksLikeCaptcha(r.body) THEN @
                               ELSE [kind |-> "page", page |-> r.body]]
               /\ pc' = "debug_write"
               /\ UNCHANGED <<scrape_out, client>>
  /\ UNCHANGED <<snapshot, debug_msg, has_client, max_detail, response, d_in, d_out>>
  /\ UNCHANGED parse_vars

\* the first write of last_comicat_page.html, whatever the page is
DebugWrite ==
  /\ pc = "debug_write"
  /\ \E w \in WriteOutcomes :
       /\ snapshot' = WriteFile(snapshot, html, w)
       /\ obs' = [obs EXCEPT !.write_failed = @ \/ w # "ok"]
  /\ pc' = "check"
  /\ UNCHANGED <<client, html, debug_msg, has_client, max_detail, scrape_out,
                 response, d_in, d_out>>
  /\ UNCHANGED parse_vars

\* captcha page and the file exists: read it back; the with block then ends
CaptchaCached ==
  /\ pc = "check"
  /\ LooksLikeCaptcha(html)
  /\ snapshot.exists
  /\ \E r \in ReadOutcomes :
       IF r = "ok"
       THEN /\ html' = snapshot.content
            /\ debug_msg' = MSG_CACHE
            /\ pc' = "parse_call"
            /\ UNCHANGED scrape_out
       ELSE /\ scrape_out' = [kind |-> "raise", exc |-> "OSError"]
            /\ pc' = "scrape_done"
            /\ UNCHANGED <<html, debug_msg>>
  /\ client' = "closed"
  /\ UNCHANGED <<snapshot, has_client, max_detail, response, obs, d_in, d_out>>
  /\ UNCHANGED parse_vars

\* captcha page and no file
CaptchaNoCache ==
  /\ pc = "check"
  /\ LooksLikeCaptcha(html)
  /\ ~snapshot.exists
  /\ scrape_out' = [kind |-> "return", items |-> <<>>, msg |-> MSG_NO_CACHE]
  /\ client' = "closed"
  /\ pc' = "scrape_done"
  /\ UNCHANGED <<snapshot, html, debug_msg, has_client, max_detail, response, obs,
                 d_in, d_out>>
  /\ UNCHANGED parse_vars

\* a real page: write the file again; the with block then ends
FreshPage ==
  /\ pc = "check"
  /\ ~LooksLikeCaptcha(html)
  /\ \E w \in WriteOutcomes :
       /\ snapshot' = WriteFile(snapshot, html, w)
       /\ obs' = [obs EXCEPT !.write_failed = @ \/ w # "ok"]
  /\ debug_msg' = MSG_OK
  /\ client' = "closed"
  /\ pc' = "parse_call"
  /\ UNCHANGED <<html, has_client, max_detail, scrape_out, response, d_in, d_out>>
  /\ UNCHANGED parse_vars

\* items[:5]
Take(items, n) == SubSeq(items, 1, IF Len(items) < n THEN Len(items) ELSE n)

\* what scrape_comicat_today does with the parser's result
ScrapeResult(out, msg) ==
  IF out.kind = "raise" THEN out
  ELSE IF out.items = <<>>
       THEN [kind |-> "return", items |-> <<>>, msg |-> MSG_NO_ITEMS]
       ELSE [kind |-> "return", items |-> Take(out.items, TOP_N), msg |-> msg]

ScrapeReturn ==
  /\ pc = "parse_done"
  /\ scrape_out' = ScrapeResult(parse_out, debug_msg)
  /\ pc' = "scrape_done"
  /\ UNCHANGED <<client, snapshot, html, debug_msg, has_client, max_detail,
                 response, obs, d_in, d_out>>
  /\ UNCHANGED parse_vars

\* ------------------------------------------------------------ scrape_latest
\* the Python values the handler can hand to FastAPI
PyList(v) == [type |-> "list", v |-> v]
PyStr(v) == [type |-> "str", v |-> v]
PyModel(v) == [type |-> "AnimeInfo", v |-> v]

\* bool(x) of a tuple or list: whether it has elements
Truthy(x) == Len(x) > 0

\* a handler that answers with the first record of the list
HandlerResponse_FirstRecord(out) ==
  IF out.kind = "raise"
  THEN [kind |-> "error", error |-> ERR_FAILED, exc |-> out.exc]
  ELSE IF out.items = <<>>
       THEN [kind |-> "error", error |-> ERR_NO_NEW, exc |-> ""]
       ELSE [kind |-> "value", value |-> PyModel(out.items[1])]

\* results = scrape_comicat_today() is the pair (items, debug_msg);
\* "if not results" tests the pair, results[0] is its first element
HandlerResponse(out) ==
  IF out.kind = "raise"
  THEN [kind |-> "error", error |-> ERR_FAILED, exc |-> out.exc]
  ELSE LET scraped == <<PyList(out.items), PyStr(out.msg)>>
       IN IF ~Truthy(scraped)
          THEN [kind |-> "error", error |-> ERR_NO_NEW, exc |-> ""]
          ELSE [kind |-> "value", value |-> scraped[1]]

HandlerRespond ==
  /\ pc = "scrape_done"
  /\ response' = HandlerResponse(scrape_out)
  /\ pc' = "responded"
  /\ UNCHANGED <<client, snapshot, html, debug_msg, has_client, max_detail,
                 scrape_out, obs, d_in, d_out>>
  /\ UNCHANGED parse_vars

\* the server after start-up: no request yet, no snapshot file
Init ==
  /\ pc = "idle"
  /\ client = "none"
  /\ snapshot = NoFile
  /\ html = NoPage
  /\ debug_msg = ""
  /\ has_client = TRUE
  /\ max_detail = MAX_DETAIL
  /\ rows = <<>> /\ idx = 0 /\ results = <<>> /\ detail_fetch_count = 0
  /\ now = NoNow
  /\ parse_out = None /\ scrape_out = None /\ response = None
  /\ detail_log = <<>>
  /\ obs = NoObs
  /\ d_in = NoDetail /\ d_out = None

Next ==
  \/ HandlerCall
  \/ InitialGet
  \/ DebugWrite
  \/ CaptchaCached
  \/ CaptchaNoCache
  \/ FreshPage
  \/ ParseBegin
  \/ ParseRow
  \/ ParseEnd
  \/ ScrapeReturn
  \/ HandlerRespond

Spec == Init /\ [][Next]_vars

\* ---------------------------------------- _fetch_detail_link on any answer
DetailPages == SeqsUpTo(AnchorKinds, MaxAnchors)
DetailNets ==
  {NetError} \cup {NetHttp(st, b) : st \in {200, 404}, b \in DetailPages}
DetailUrls == {BASE_URL \o <<"show-a.html">>, <<"https://mirror.example/", "e.html">>}

InitDetail ==
  /\ pc = "detail_call"
  /\ client \in {"open", "closed"}
  /\ d_in \in {[client |-> client, url |-> u, net |-> n] :
                 u \in DetailUrls, n \in DetailNets}
  /\ d_out = None
  /\ snapshot = NoFile
  /\ html = NoPage
  /\ debug_msg = ""
  /\ has_client = TRUE
  /\ max_detail = MAX_DETAIL
  /\ rows = <<>> /\ idx = 0 /\ results = <<>> /\ detail_fetch_count = 0
  /\ now = NoNow
  /\ parse_out = None /\ scrape_out = None /\ response = None
  /\ detail_log = <<>>
  /\ obs = NoObs

DetailCall ==
  /\ pc = "detail_call"
  /\ d_out' = FetchDetailLink(d_in.client, d_in.url, d_in.net)
  /\ pc' = "detail_done"
  /\ UNCHANGED <<client, snapshot, html, debug_msg, has_client, max_detail,
                 scrape_out, response, obs, d_in>>
  /\ UNCHANGED parse_vars

NextDetail == DetailCall

SpecDetail == InitDetail /\ [][NextDetail]_vars
\* ================================================================== claims
\* the rows of a table the claims call retained: at least 4 direct cells and
\* an <a href> in the third one
IsRetained(tds) == Len(tds) >= 4 /\ \E k \in 1..Len(tds[3].anchors) : tds[3].anchors[k].has_href
RetainedIdx(rs) == SelectSeq([i \in 1..Len(rs) |-> i], LAMBDA i : IsRetained(rs[i]))
FirstHref(tds) ==
  LET k == Min({j \in 1..Len(tds[3].anchors) : tds[3].anchors[j].has_href})
  IN tds[3].anchors[k]
RawDetailUrl(tds) == UrlJoin(BASE_URL, Strip(FirstHref(tds).href))
MinOf(a, b) == IF a < b THEN a ELSE b
Returned(out) == out.kind = "return"

\* a size token alone, and a quality tag alone
IsSizeToken(s) == s # <<>> /\ SizeMatchLen(s, 1) = Len(s)
IsQualityTag(q) ==
  Len(q) = 1 /\ \E g \in 1..Len(Q_PATTERNS) : LowerAtom(q[1]) \in Q_PATTERNS[g]

\* the links of a detail page as the claim about the resolver names them
C9_Magnet(h) == h # <<>> /\ h[1] = MAGNET_PREFIX
C9_Download(h) ==
  h # <<>> /\ (LowerAtom(h[Len(h)]) = ".torrent"
               \/ \E i \in 1..Len(h) : LowerAtom(h[i]) = "download")
C9_Hrefs(body) ==
  LET as == SelectSeq(body, LAMBDA a : a.has_href)
  IN [i \in 1..Len(as) |-> Strip(as[i].href)]
C9_Ok(d) == d.client = "open" /\ d.net.kind = "http" /\ d.net.status = 200

\* C1: in an invocation whose fetched body is flagged and that started with no
\* snapshot file, the table parser is never called, and the result it returns
\* is the empty sequence with the "no cache available" diagnostic.
C1_NoCacheWhenNoSnapshot ==
  (obs.fetched # None /\ obs.blocked /\ ~obs.snap_at_start.exists)
  => /\ obs.parse_calls = 0
     /\ (pc \in {"scrape_done", "responded"} /\ Returned(scrape_out))
          => scrape_out = [kind |-> "return", items |-> <<>>, msg |-> MSG_NO_CACHE]

\* C2: with its snapshot writes succeeding, a fetch whose body is flagged never
\* changes the snapshot file, so the snapshot stays absent or the body of the
\* most recent fetch that was not flagged.
C2_FlaggedFetchKeepsSnapshot ==
  [][(obs.blocked /\ ~obs'.write_failed) => snapshot' = snapshot]_vars

\* C3: when scrape_comicat_today returns an empty record sequence, the handler
\* answers with the error payload "No new anime releases today.".
C3_EmptyResultGivesError ==
  (pc = "responded" /\ Returned(scrape_out) /\ scrape_out.items = <<>>)
  => /\ response.kind = "error"
     /\ response.error = ERR_NO_NEW

\* C4 as stated: when scrape_comicat_today returns 1 to 5 records, the handler's
\* success response is the single first record.
C4_ResponseIsFirstRecord ==
  (pc = "responded" /\ Returned(scrape_out) /\ scrape_out.items # <<>>)
  => /\ response.kind = "value"
     /\ response.value.type = "AnimeInfo"
     /\ response.value.v = scrape_out.items[1]

\* C4 amended: when scrape_comicat_today returns 1 to 5 records, the handler's
\* success response is that whole record sequence: the first element of the
\* (records, diagnostic) pair, not one record and not the pair.
C4_ResponseIsRecordList ==
  (pc = "responded" /\ Returned(scrape_out) /\ scrape_out.items # <<>>)
  => /\ response.kind = "value"
     /\ response.value.type = "list"
     /\ response.value.v = scrape_out.items
     /\ Len(response.value.v) \in 1..TOP_N

\* C4, the case: six rows are parsed, five are returned and answered.
C4_Witness ==
  /\ pc = "responded"
  /\ Returned(scrape_out)
  /\ Len(scrape_out.items) = TOP_N
  /\ Len(parse_out.items) > TOP_N
  /\ response.kind = "value"
  /\ response.value.type = "list"
  /\ Len(response.value.v) = TOP_N

\* C5: scrape_comicat_today ends with an exception only when the initial
\* listing GET fails on the network.
C5_OnlyInitialGetRaises ==
  (pc = "scrape_done" /\ scrape_out.kind = "raise")
  => /\ obs.fetched = None
     /\ scrape_out.exc = "ConnectError"

\* C6: with a client supplied, the resolver is called for exactly the first
\* min(max_detail, n) of the n retained rows, in order, and every later retained
\* row keeps its raw detail URL; skipped rows do not use up the cap.
C6_CapOnDetailResolutions ==
  (pc = "parse_done" /\ html.has_table /\ has_client)
  => LET ret == RetainedIdx(html.rows)
         m == MinOf(max_detail, Len(ret))
     IN /\ Len(detail_log) = m
        /\ \A j \in 1..m : detail_log[j].row = ret[j]
        /\ Returned(parse_out)
        /\ Len(parse_out.items) = Len(ret)
        /\ \A j \in (m + 1)..Len(ret) :
             parse_out.items[j].url = RawDetailUrl(html.rows[ret[j]])

\* C7: the parser returns one record for each retained row, in document order,
\* none for any other row, and the empty sequence when the table is absent.
C7_OneRecordPerRetainedRow ==
  (pc = "parse_done")
  => /\ Returned(parse_out)
     /\ IF ~html.has_table THEN parse_out.items = <<>>
        ELSE LET ret == RetainedIdx(html.rows)
             IN /\ Len(parse_out.items) = Len(ret)
                /\ \A j \in 1..Len(ret) :
                     /\ parse_out.items[j].title =
                          CleanText(FirstHref(html.rows[ret[j]]).text)
                     /\ parse_out.items[j].size =
                          GuessSize(CleanText(html.rows[ret[j]][4].text))

\* C8: no record has an empty field: the title and the url are not empty, the
\* size is a size token or the unknown-size sentinel, the quality is a tag or
\* "unknown".
C8_NoEmptyField ==
  \A j \in 1..Len(results) :
    /\ results[j].title # <<>>
    /\ results[j].url # <<>>
    /\ IsSizeToken(results[j].size) \/ results[j].size = UNKNOWN_SIZE
    /\ IsQualityTag(results[j].quality) \/ results[j].quality = UNKNOWN_QUALITY

\* C9: _fetch_detail_link never raises; on HTTP 200 it returns the first href
\* that starts with the magnet prefix when there is one, otherwise the first
\* href ending in ".torrent" or containing "download" (any case); on a network
\* error, another status or no such link it returns the detail URL.
C9_ResolveDownloadLink ==
  (pc = "detail_done")
  => /\ d_out.kind = "return"
     /\ LET h == C9_Hrefs(d_in.net.body)
            ms == {i \in 1..Len(h) : C9_Magnet(h[i])}
            ds == {i \in 1..Len(h) : C9_Download(h[i])}
        IN IF C9_Ok(d_in) /\ ms # {}
           THEN \E i \in ms : d_out.value = h[i] /\ \A k \in ms : i <= k
           ELSE IF C9_Ok(d_in) /\ ds # {}
           THEN \E i \in ds : d_out.value = h[i] /\ \A k \in ds : i <= k
           ELSE d_out.value = d_in.url

\* C9, the case: a 200 page whose .torrent link stands before its magnet link.
C9_Witness ==
  /\ pc = "detail_done"
  /\ C9_Ok(d_in)
  /\ d_in.net.body = <<A_TORRENT, A_MAGNET>>
  /\ d_out = [kind |-> "return", value |-> <<MAGNET_PREFIX, "abc">>]

\* C10: every detail fetch of an invocation is issued while the client session
\* of the listing fetch is still open.
C10_DetailFetchOnOpenSession ==
  \A j \in 1..Len(detail_log) : detail_log[j].client = "open"
====
